---- MODULE Spec2Model ----
(***************************************************************************)
(* Model of the staleness-bounded parameter-server training driver of      *)
(* MNIST/mnist.py: the driver script (the scheduler), the ParameterServer  *)
(* actor and the DataWorker actors.                                        *)
(*                                                                         *)
(* Remote calls (`x.f.remote(...)`) return a handle at once; the actor     *)
(* executes its calls later, one at a time, in submission order.  A handle *)
(* is "pending" until the call has run, then "ready" or, when the call or  *)
(* one of its arguments raised, "error".  ray.wait reports an errored      *)
(* handle as ready; only ray.get re-raises the error in the driver.        *)
(*                                                                         *)
(* Numbers: the parameter is one scalar, kept in units of 1/Denom so that  *)
(* the mean over up to MaxWorkers gradients stays an integer.              *)
(***************************************************************************)
EXTENDS Integers, Sequences, FiniteSets, TLC

\* ---------------------------------------------------------------- bounds
MaxWorkers == 3            \* num_workers and num_workers_ps_update range
MaxTolerance == 1          \* small stale_tolerance values 0..MaxTolerance
Iterations == 2            \* mnist.py:154 has 500; scaled down
ScenarioIterations == 3    \* the same, for the two-worker scenario
num_evaluations == 2       \* mnist.py:201 has 50; scaled down with iterations
EvalPeriod == 2            \* sync_baseline.py:166 has 10; scaled down likewise
InitialParameter == 10     \* the scalar parameter of a fresh ConvNet

RECURSIVE Factorial(_)
Factorial(n) == IF n <= 1 THEN 1 ELSE n * Factorial(n - 1)

Denom == Factorial(MaxWorkers)

Workers == 1..MaxWorkers
\* The forward/backward pass is outside the model: every batch yields the
\* gradient 1.
GradValues == {1}
LearningRates == {1}
GradRules == {"sum", "mean", "max"}
UpdateRules == {"sgd", "adam", "adagrad", "rmsprop"}

VARIABLES
    \* user inputs (mnist.py:146-152) and the iteration budget (line 154),
    \* fixed for the run
    num_workers, num_workers_ps_update, stale_tolerance, lr,
    ps_grad_rule, ps_update_rule, iterations,
    \* ParameterServer actor
    ps_state,          \* "unborn" | "alive" | "dead" (constructor raised)
    param,             \* self.model's scalar parameter, in units of 1/Denom
    version,           \* number of optimizer.step() calls performed
    ps_calls,          \* calls submitted to the actor and not yet run, in order
    ps_submitted,      \* number of calls ever submitted (the last handle)
    ps_executed,       \* number of calls run; handle h is resolved iff h <= it
    ps_results,        \* weights handle -> result, for the handles still referenced
    \* DataWorker results: gradient handle <<worker, n>> -> record, for the
    \* handles still referenced
    obj,
    dispatched,        \* worker -> number of compute requests sent to it
    \* driver script
    pc, i, total_iterations, current_weights, num_worker_updates,
    gradients, min_worker_updates, unusable_gradients, used_gradients,
    k,                 \* position of the loop of lines 197-199
    accuracy,          \* number of evaluations done (0: `accuracy` unbound)
    model_weights,     \* weights last loaded into the driver's own model
    \* history
    observed,          \* handles returned by ray.wait in this round, in order
    was_unusable,      \* live handles that were classified unusable in some round
    applied,           \* handles ever passed to apply_gradients
    admitted_by,       \* worker -> weights handle of the apply that last admitted
                       \* it (of the first get_weights when none did)
    trace,             \* the applies the parameter server performed, in order
    baseline_trace     \* the trace of the sync_baseline.py run that went before

config == <<num_workers, num_workers_ps_update, stale_tolerance, lr,
            ps_grad_rule, ps_update_rule, iterations>>
ps_vars == <<ps_state, param, version, ps_calls, ps_submitted, ps_executed,
            ps_results>>
sched_vars == <<pc, i, total_iterations, current_weights, num_worker_updates,
                gradients, min_worker_updates, unusable_gradients,
                used_gradients, k, accuracy, model_weights>>
hist_vars == <<observed, was_unusable, applied, admitted_by, trace,
               baseline_trace>>
worker_vars == <<obj, dispatched>>
vars == <<config, ps_vars, worker_vars, sched_vars, hist_vars>>

\* ---------------------------------------------------------------- helpers
TheWorkers == 1..num_workers

RECURSIVE SetMin(_)
SetMin(S) ==
    LET x == CHOOSE y \in S : TRUE
    IN  IF S = {x} THEN x
        ELSE LET m == SetMin(S \ {x}) IN IF x < m THEN x ELSE m

RECURSIVE SetMax(_)
SetMax(S) ==
    LET x == CHOOSE y \in S : TRUE
    IN  IF S = {x} THEN x
        ELSE LET m == SetMax(S \ {x}) IN IF x > m THEN x ELSE m

RECURSIVE SeqSum(_)
SeqSum(s) == IF s = <<>> THEN 0 ELSE Head(s) + SeqSum(Tail(s))

Range(s) == {s[n] : n \in 1..Len(s)}

\* A dict without one key / with one more key.
Pop(d, key) == [x \in (DOMAIN d) \ {key} |-> d[x]]
Put(d, key, val) == [x \in (DOMAIN d) \cup {key} |-> IF x = key THEN val ELSE d[x]]
EmptyDict == [x \in {} |-> 0]

Restrict(d, keys) == [x \in (DOMAIN d) \cap keys |-> d[x]]

\* Handles of the parameter server's results are the call numbers; a handle
\* is resolved once its call is no longer queued.
Resolved(h) ==
    /\ h <= ps_submitted
    /\ \A n \in 1..Len(ps_calls) : ps_calls[n].handle # h

\* The object store drops a result when no reference to it is left: a
\* gradient is referenced by the driver's dicts and by a queued
\* apply_gradients call, a weights result by current_weights and by a
\* queued compute_gradients call.
LiveGradients(pending, unusable, used, calls) ==
    (DOMAIN pending) \cup (DOMAIN unusable) \cup {used[n].id : n \in 1..Len(used)}
    \cup UNION {Range(calls[n].args) : n \in 1..Len(calls)}

LiveWeights(cw, objs) ==
    {cw} \cup {objs[g].dep : g \in {h \in DOMAIN objs : objs[h].state = "pending"}}

\* ---------------------------------------------------------------- Init
\* The inputs of a run.  Rules other than the defaults are tried one at a
\* time; the largest tolerance is one no run can exceed.
Inputs ==
    /\ num_workers \in 1..MaxWorkers
    /\ num_workers_ps_update \in 1..MaxWorkers
    /\ stale_tolerance \in (0..MaxTolerance) \cup {MaxWorkers * Iterations}
    /\ lr \in LearningRates
    /\ ps_grad_rule \in GradRules
    /\ ps_update_rule \in UpdateRules
    /\ (ps_grad_rule = "sum" \/ ps_update_rule = "sgd")
    /\ iterations = Iterations

\* The inputs of the two-worker scenario: both workers in the quorum, no
\* tolerance, sum, plain descent with rate 1.
ScenarioInputs ==
    /\ num_workers = 2
    /\ num_workers_ps_update = 2
    /\ stale_tolerance = 0
    /\ lr = 1
    /\ ps_grad_rule = "sum"
    /\ ps_update_rule = "sgd"
    /\ iterations = ScenarioIterations

\* No actor exists yet and the driver has bound nothing.
Fresh ==
    /\ ps_state = "unborn"
    /\ param = InitialParameter * Denom
    /\ version = 0
    /\ ps_calls = <<>>
    /\ ps_submitted = 0
    /\ ps_executed = 0
    /\ ps_results = EmptyDict
    /\ obj = EmptyDict
    /\ dispatched = [w \in 1..num_workers |-> 0]
    /\ i = 0
    /\ total_iterations = 0
    /\ current_weights = 0
    /\ num_worker_updates = [w \in 1..num_workers |-> 0]
    /\ gradients = EmptyDict
    /\ min_worker_updates = 0
    /\ unusable_gradients = EmptyDict
    /\ used_gradients = <<>>
    /\ k = 0
    /\ accuracy = 0
    /\ model_weights = 0
    /\ observed = <<>>
    /\ was_unusable = {}
    /\ applied = {}
    /\ admitted_by = [w \in 1..num_workers |-> 0]
    /\ trace = <<>>

\* The state before line 157: the inputs are read.
Start ==
    /\ Fresh
    /\ pc = "construct"
    /\ baseline_trace = <<>>

Init == Inputs /\ Start

ScenarioInit == ScenarioInputs /\ Start

\* Runs with no tolerance.
NoToleranceInit == Inputs /\ stale_tolerance = 0 /\ Start

\* ---------------------------------------------------------------- ParameterServer
ValidUpdateRule(rule) == rule \in {"sgd", "adam", "adagrad"}

\* ParameterServer.__init__: raises on an unknown update rule; the gradient
\* rule is stored as given.
Construct ==
    /\ pc = "construct"
    /\ ps_state' = IF ValidUpdateRule(ps_update_rule) THEN "alive" ELSE "dead"
    /\ pc' = "dispatch"
    /\ UNCHANGED <<config, param, version, ps_calls, ps_submitted, ps_executed,
                   ps_results, worker_vars, i, total_iterations, current_weights, num_worker_updates,
                   gradients, min_worker_updates, unusable_gradients,
                   used_gradients, k, accuracy, model_weights, hist_vars>>

ValidGradRule(rule) == rule \in {"sum", "mean"}

Aggregate_AlwaysMean(rule, vals) == (SeqSum(vals) * Denom) \div Len(vals)

\* np.stack(...).sum(axis=0) / .mean(axis=0) over the gradients, in 1/Denom.
Aggregate(rule, vals) ==
    IF rule = "sum" THEN SeqSum(vals) * Denom
    ELSE (SeqSum(vals) * Denom) \div Len(vals)

Sign(x) == IF x > 0 THEN 1 ELSE IF x < 0 THEN 0 - 1 ELSE 0

\* optimizer.step().  SGD is p - lr*g.  Adam and Adagrad keep moment
\* estimates that are not rational; their step is kept as lr in the
\* direction of the gradient (exact for the first step of either).
OptimizerStep(rule, p, g) ==
    IF rule = "sgd" THEN p - lr * g ELSE p - lr * Denom * Sign(g)

NextVersion(v) == v + 1

ErrorResult == [state |-> "error", val |-> 0, ver |-> 0]

Dequeue_Newest(calls) == <<calls[Len(calls)], SubSeq(calls, 1, Len(calls) - 1)>>

\* The actor takes its calls one at a time, oldest first: <<call, rest>>.
Dequeue(calls) == <<Head(calls), Tail(calls)>>

\* ParameterServer.get_weights, executed by the actor.
get_weights ==
    /\ ps_state # "unborn"
    /\ ps_calls # <<>>
    /\ Dequeue(ps_calls)[1].op = "get_weights"
    /\ ps_calls' = Dequeue(ps_calls)[2]
    /\ ps_executed' = ps_executed + 1
    /\ ps_results' = Restrict(
            Put(ps_results, Dequeue(ps_calls)[1].handle,
                IF ps_state = "dead" THEN ErrorResult
                ELSE [state |-> "ready", val |-> param, ver |-> version]),
            LiveWeights(current_weights, obj))
    /\ UNCHANGED <<config, ps_state, param, version, ps_submitted, worker_vars,
                   sched_vars, hist_vars>>

ApplyStep_TwoSteps(p, v, vals) ==
    <<OptimizerStep(ps_update_rule,
                    OptimizerStep(ps_update_rule, p, Aggregate(ps_grad_rule, vals)),
                    Aggregate(ps_grad_rule, vals)),
      NextVersion(NextVersion(v))>>

\* The body of ParameterServer.apply_gradients on resolved arguments: the
\* new <<parameter, version>>.
ApplyStep(p, v, vals) ==
    <<OptimizerStep(ps_update_rule, p, Aggregate(ps_grad_rule, vals)),
      NextVersion(v)>>

\* ParameterServer.apply_gradients, executed by the actor once every
\* argument is resolved.
apply_gradients ==
    /\ ps_state # "unborn"
    /\ ps_calls # <<>>
    /\ Dequeue(ps_calls)[1].op = "apply_gradients"
    /\ LET args == Dequeue(ps_calls)[1].args
           handle == Dequeue(ps_calls)[1].handle
           vals == [n \in 1..Len(args) |-> obj[args[n]].val]
       IN  /\ \A n \in 1..Len(args) : obj[args[n]].state # "pending"
           /\ ps_calls' = Dequeue(ps_calls)[2]
           /\ ps_executed' = ps_executed + 1
           /\ IF \/ ps_state = "dead"
                 \/ \E n \in 1..Len(args) : obj[args[n]].state = "error"
                 \/ ~ValidGradRule(ps_grad_rule)
              THEN /\ ps_results' = Restrict(
                          Put(ps_results, handle, ErrorResult),
                          LiveWeights(current_weights, obj))
                   /\ UNCHANGED <<param, version, trace>>
              ELSE /\ param' = ApplyStep(param, version, vals)[1]
                   /\ version' = ApplyStep(param, version, vals)[2]
                   /\ ps_results' = Restrict(
                          Put(ps_results, handle,
                              [state |-> "ready", val |-> param', ver |-> version']),
                          LiveWeights(current_weights, obj))
                   /\ trace' = Append(trace,
                          [count |-> Len(args),
                           contributions |->
                               {<<args[n][1], obj[args[n]].ver>> : n \in 1..Len(args)},
                           result |-> param'])
           /\ obj' = Restrict(obj, LiveGradients(gradients, unusable_gradients,
                                                  used_gradients, ps_calls'))
           /\ was_unusable' = was_unusable \cap DOMAIN obj'
    /\ UNCHANGED <<config, ps_state, ps_submitted, dispatched, sched_vars,
                   observed, applied, admitted_by, baseline_trace>>

\* ---------------------------------------------------------------- DataWorker
\* DataWorker.compute_gradients, executed by worker w once the weights it
\* was sent are resolved.  The gradient depends on the worker's next batch.
compute_gradients(w) ==
    \E g \in DOMAIN obj :
        /\ g[1] = w
        /\ obj[g].state = "pending"
        /\ Resolved(obj[g].dep)
        /\ IF ps_results[obj[g].dep].state = "error"
           THEN obj' = [obj EXCEPT ![g].state = "error"]
           ELSE \E v \in GradValues :
                    obj' = [obj EXCEPT ![g].state = "ready", ![g].val = v,
                                       ![g].ver = ps_results[obj[g].dep].ver]
        /\ ps_results' = Restrict(ps_results, LiveWeights(current_weights, obj'))
        /\ UNCHANGED <<config, ps_state, param, version, ps_calls, ps_submitted,
                       ps_executed, dispatched, sched_vars, hist_vars>>

\* worker.compute_gradients.remote(weights): a new pending handle.
NewGradient_Stale(weights) ==
    [dep |-> IF weights > 1 THEN weights - 1 ELSE weights,
     state |-> "pending", val |-> 0, ver |-> 0]

NewGradient(weights) ==
    [dep |-> weights, state |-> "pending", val |-> 0, ver |-> 0]

\* The handle of the next compute request sent to worker w.
NewGradientId(w) == <<w, dispatched[w] + 1>>

\* ---------------------------------------------------------------- driver
\* Lines 166-171: read the weights, send one compute request to every
\* worker, fix the number of rounds.
InitialDispatch ==
    /\ pc = "dispatch"
    /\ ps_submitted' = ps_submitted + 1
    /\ ps_calls' = Append(ps_calls, [op |-> "get_weights", args |-> <<>>,
                                     handle |-> ps_submitted'])
    /\ current_weights' = ps_submitted'
    /\ num_worker_updates' = [w \in TheWorkers |-> 0]
    /\ obj' = [g \in {NewGradientId(w) : w \in TheWorkers} |->
                  NewGradient(current_weights')]
    /\ gradients' = [g \in {NewGradientId(w) : w \in TheWorkers} |-> g[1]]
    /\ dispatched' = [w \in TheWorkers |-> dispatched[w] + 1]
    /\ total_iterations' = (iterations * num_workers) \div num_workers_ps_update
    /\ admitted_by' = [w \in TheWorkers |-> current_weights']
    /\ pc' = "round"
    /\ UNCHANGED <<config, ps_state, param, version, ps_executed, ps_results, i,
                   min_worker_updates, unusable_gradients, used_gradients, k,
                   accuracy, model_weights, observed, was_unusable, applied,
                   trace, baseline_trace>>

\* Lines 175-179: the head of a round.
RoundStart ==
    /\ pc = "round"
    /\ i < total_iterations
    /\ min_worker_updates' = SetMin({num_worker_updates[w] : w \in TheWorkers})
    /\ unusable_gradients' = EmptyDict
    /\ used_gradients' = <<>>
    /\ observed' = <<>>
    /\ obj' = Restrict(obj, LiveGradients(gradients, EmptyDict, <<>>, ps_calls))
    /\ was_unusable' = was_unusable \cap DOMAIN obj'
    /\ pc' = "wait"
    /\ UNCHANGED <<config, ps_vars, dispatched, i, total_iterations,
                   current_weights, num_worker_updates, gradients, k, accuracy,
                   model_weights, applied, admitted_by, trace, baseline_trace>>

Usable_OffByOne(worker_updates, min_updates) ==
    worker_updates - min_updates <= stale_tolerance + 1

Usable_Strict(worker_updates, min_updates) ==
    worker_updates - min_updates < stale_tolerance

Usable_IgnoresTolerance(worker_updates, min_updates) ==
    worker_updates - min_updates <= 0

Usable_CountsEarlier(worker_updates, min_updates) ==
    worker_updates - min_updates + Len(used_gradients) <= stale_tolerance

\* Line 188: the staleness test.
Usable(worker_updates, min_updates) ==
    worker_updates - min_updates <= stale_tolerance

QuorumFull_OneShort(used) == Len(used) >= num_workers_ps_update - 1

\* Line 180, negated: the round has its quorum.
QuorumFull(used) == Len(used) >= num_workers_ps_update

\* Lines 180-191: one pass of the while loop.  ray.wait returns one resolved
\* handle of `gradients` (or nothing at once when `gradients` is empty: the
\* loop then spins); the handle is popped and classified.
WaitAny ==
    /\ pc = "wait"
    /\ ~QuorumFull(used_gradients)
    /\ IF DOMAIN gradients = {}
       THEN UNCHANGED vars
       ELSE \E gradient_id \in DOMAIN gradients :
              /\ obj[gradient_id].state # "pending"
              /\ LET worker == gradients[gradient_id]
                     worker_updates == num_worker_updates[worker]
                 IN  /\ gradients' = Pop(gradients, gradient_id)
                     /\ observed' = Append(observed, gradient_id)
                     /\ IF Usable(worker_updates, min_worker_updates)
                        THEN /\ used_gradients' = Append(used_gradients,
                                    [id |-> gradient_id, worker |-> worker])
                             /\ UNCHANGED <<unusable_gradients, was_unusable>>
                        ELSE /\ unusable_gradients' =
                                    Put(unusable_gradients, gradient_id, worker)
                             /\ was_unusable' = was_unusable \cup {gradient_id}
                             /\ UNCHANGED used_gradients
              /\ UNCHANGED <<config, ps_vars, worker_vars, pc, i,
                             total_iterations, current_weights,
                             num_worker_updates, min_worker_updates, k,
                             accuracy, model_weights, applied, admitted_by,
                             trace, baseline_trace>>

Requeue_DropsUnusable(pending, unusable) == pending

Requeue_AlsoUsed(pending, unusable) ==
    [g \in (DOMAIN pending) \cup (DOMAIN unusable)
            \cup {used_gradients[n].id : n \in 1..Len(used_gradients)} |-> g[1]]

\* Lines 192-193: the unusable handles go back into `gradients`.
Requeue(pending, unusable) ==
    [g \in (DOMAIN pending) \cup (DOMAIN unusable) |->
        IF g \in DOMAIN unusable THEN unusable[g] ELSE pending[g]]

\* Lines 180 (condition false), 192-196: the quorum is full; requeue the
\* unusable handles and submit apply_gradients on the used ones.
SubmitApply ==
    /\ pc = "wait"
    /\ QuorumFull(used_gradients)
    /\ gradients' = Requeue(gradients, unusable_gradients)
    /\ ps_submitted' = ps_submitted + 1
    /\ ps_calls' = Append(ps_calls,
            [op |-> "apply_gradients",
             args |-> [n \in 1..Len(used_gradients) |-> used_gradients[n].id],
             handle |-> ps_submitted'])
    /\ current_weights' = ps_submitted'
    /\ ps_results' = Restrict(ps_results, LiveWeights(current_weights', obj))
    /\ applied' = applied \cup {used_gradients[n].id : n \in 1..Len(used_gradients)}
    /\ admitted_by' = [w \in TheWorkers |->
            IF \E n \in 1..Len(used_gradients) : used_gradients[n].worker = w
            THEN current_weights' ELSE admitted_by[w]]
    /\ k' = 1
    /\ pc' = "redispatch"
    /\ UNCHANGED <<config, ps_state, param, version, ps_executed, worker_vars, i,
                   total_iterations, num_worker_updates, min_worker_updates,
                   unusable_gradients, used_gradients, accuracy, model_weights,
                   observed, was_unusable, trace, baseline_trace>>

CountAdmission_Forgotten(counts, worker) == counts

CountAdmission_Twice(counts, worker) == [counts EXCEPT ![worker] = @ + 2]

\* Line 199: num_worker_updates[worker] += 1.
CountAdmission(counts, worker) == [counts EXCEPT ![worker] = @ + 1]

\* Lines 197-199: one pass of the for loop over the used workers.
Redispatch ==
    /\ pc = "redispatch"
    /\ k <= Len(used_gradients)
    /\ LET worker == used_gradients[k].worker
       IN  /\ obj' = Put(obj, NewGradientId(worker), NewGradient(current_weights))
           /\ gradients' = Put(gradients, NewGradientId(worker), worker)
           /\ dispatched' = [dispatched EXCEPT ![worker] = @ + 1]
           /\ num_worker_updates' = CountAdmission(num_worker_updates, worker)
    /\ k' = k + 1
    /\ pc' = IF k = Len(used_gradients) THEN "eval" ELSE "redispatch"
    /\ UNCHANGED <<config, ps_vars, i, total_iterations, current_weights,
                   min_worker_updates, unusable_gradients, used_gradients,
                   accuracy, model_weights, hist_vars>>

\* Line 201: i % (total_iterations / 50) < 1, over the integers.
EvalDue(idx) ==
    (num_evaluations * idx) % total_iterations < num_evaluations

Evaluate_DropsPending ==
    /\ pc = "eval"
    /\ EvalDue(i)
    /\ Resolved(current_weights)
    /\ model_weights' = ps_results[current_weights].val
    /\ accuracy' = accuracy + 1
    /\ i' = i + 1
    /\ pc' = "round"
    /\ gradients' = EmptyDict
    /\ UNCHANGED <<config, ps_vars, worker_vars, total_iterations, current_weights,
                   num_worker_updates, min_worker_updates,
                   unusable_gradients, used_gradients, k, hist_vars>>

\* Lines 201-206 when an evaluation is due: ray.get blocks until the last
\* apply has run, and raises when it failed.
Evaluate ==
    /\ pc = "eval"
    /\ EvalDue(i)
    /\ Resolved(current_weights)
    /\ IF ps_results[current_weights].state = "error"
       THEN /\ pc' = "crashed"
            /\ UNCHANGED <<i, accuracy, model_weights>>
       ELSE /\ model_weights' = ps_results[current_weights].val
            /\ accuracy' = accuracy + 1
            /\ i' = i + 1
            /\ pc' = "round"
    /\ UNCHANGED <<config, ps_vars, worker_vars, total_iterations, current_weights,
                   num_worker_updates, gradients, min_worker_updates,
                   unusable_gradients, used_gradients, k, hist_vars>>

\* Line 201 when no evaluation is due.
SkipEvaluate ==
    /\ pc = "eval"
    /\ ~EvalDue(i)
    /\ i' = i + 1
    /\ pc' = "round"
    /\ UNCHANGED <<config, ps_vars, worker_vars, total_iterations, current_weights,
                   num_worker_updates, gradients, min_worker_updates,
                   unusable_gradients, used_gradients, k, accuracy,
                   model_weights, hist_vars>>

\* Lines 175 (range exhausted) and 208: the final print reads `accuracy`,
\* which is unbound when no round ran.
Finish ==
    /\ pc = "round"
    /\ i >= total_iterations
    /\ pc' = IF accuracy = 0 THEN "crashed" ELSE "done"
    /\ UNCHANGED <<config, ps_vars, worker_vars, i, total_iterations, current_weights,
                   num_worker_updates, gradients, min_worker_updates,
                   unusable_gradients, used_gradients, k, accuracy,
                   model_weights, hist_vars>>

Next ==
    \/ Construct
    \/ InitialDispatch
    \/ RoundStart
    \/ WaitAny
    \/ SubmitApply
    \/ Redispatch
    \/ Evaluate
    \/ SkipEvaluate
    \/ Finish
    \/ get_weights
    \/ apply_gradients
    \/ \E w \in Workers : compute_gradients(w)

Spec == Init /\ [][Next]_vars

\* The driver runs whenever it is not blocked in ray.wait or ray.get, and
\* every actor runs the calls queued for it.
Fairness ==
    /\ WF_vars(Construct)
    /\ WF_vars(InitialDispatch)
    /\ WF_vars(RoundStart)
    /\ WF_vars(WaitAny)
    /\ WF_vars(SubmitApply)
    /\ WF_vars(Redispatch)
    /\ WF_vars(Evaluate)
    /\ WF_vars(SkipEvaluate)
    /\ WF_vars(Finish)
    /\ WF_vars(get_weights)
    /\ WF_vars(apply_gradients)
    /\ \A w \in Workers : WF_vars(compute_gradients(w))

ScenarioSpec == ScenarioInit /\ [][Next]_vars

NoToleranceSpec == NoToleranceInit /\ [][Next]_vars /\ Fairness

\* ---------------------------------------------------------------- sync_baseline.py
\* The driver of Fashion-MNIST/Synchronous/sync_baseline.py.  Its
\* ParameterServer sums the gradients and takes a plain descent step, which
\* is the actor above with ps_grad_rule "sum" and ps_update_rule "sgd"; its
\* DataWorker is the one above.

\* The inputs of the comparison: sync_baseline.py's workers, rate and
\* iteration budget, and mnist.py given the same with the whole of the
\* workers as quorum and no tolerance.
ComparisonInputs ==
    /\ num_workers \in 1..MaxWorkers
    /\ num_workers_ps_update = num_workers
    /\ stale_tolerance = 0
    /\ lr \in LearningRates
    /\ ps_grad_rule = "sum"
    /\ ps_update_rule = "sgd"
    /\ iterations = ScenarioIterations

ComparisonInit ==
    /\ ComparisonInputs
    /\ Fresh
    /\ pc = "sync_construct"
    /\ baseline_trace = <<>>

\* Lines 147-155: the actors are created (this ParameterServer.__init__
\* checks nothing) and the weights are requested.
SyncConstruct ==
    /\ pc = "sync_construct"
    /\ ps_state' = "alive"
    /\ ps_submitted' = ps_submitted + 1
    /\ ps_calls' = Append(ps_calls, [op |-> "get_weights", args |-> <<>>,
                                     handle |-> ps_submitted'])
    /\ current_weights' = ps_submitted'
    /\ pc' = "sync_round"
    /\ UNCHANGED <<config, param, version, ps_executed, ps_results, worker_vars,
                   i, total_iterations, num_worker_updates, gradients,
                   min_worker_updates, unusable_gradients, used_gradients, k,
                   accuracy, model_weights, hist_vars>>

\* Lines 159-164: one compute request per worker on current_weights, and
\* apply_gradients on all their handles, none of which is waited for.
SyncRound ==
    /\ pc = "sync_round"
    /\ i < iterations
    /\ gradients' = [g \in {NewGradientId(w) : w \in TheWorkers} |-> g[1]]
    /\ dispatched' = [w \in TheWorkers |-> dispatched[w] + 1]
    /\ ps_submitted' = ps_submitted + 1
    /\ ps_calls' = Append(ps_calls,
            [op |-> "apply_gradients",
             args |-> [w \in TheWorkers |-> NewGradientId(w)],
             handle |-> ps_submitted'])
    /\ current_weights' = ps_submitted'
    /\ obj' = Restrict(
            [g \in (DOMAIN obj) \cup (DOMAIN gradients') |->
                IF g \in DOMAIN gradients' THEN NewGradient(current_weights)
                ELSE obj[g]],
            LiveGradients(gradients', EmptyDict, <<>>, ps_calls'))
    /\ ps_results' = Restrict(ps_results, LiveWeights(current_weights', obj'))
    /\ pc' = "sync_eval"
    /\ UNCHANGED <<config, ps_state, param, version, ps_executed, i,
                   total_iterations, num_worker_updates, min_worker_updates,
                   unusable_gradients, used_gradients, k, accuracy,
                   model_weights, hist_vars>>

\* Line 166: i % 10 == 0, at the scale of the model.
SyncEvalDue(idx) == idx % EvalPeriod = 0

\* Lines 166-170 when an evaluation is due: ray.get blocks until the apply
\* has run, and raises when it failed.
SyncEvaluate ==
    /\ pc = "sync_eval"
    /\ SyncEvalDue(i)
    /\ Resolved(current_weights)
    /\ IF ps_results[current_weights].state = "error"
       THEN /\ pc' = "crashed"
            /\ UNCHANGED <<i, accuracy, model_weights>>
       ELSE /\ model_weights' = ps_results[current_weights].val
            /\ accuracy' = accuracy + 1
            /\ i' = i + 1
            /\ pc' = "sync_round"
    /\ UNCHANGED <<config, ps_vars, worker_vars, total_iterations, current_weights,
                   num_worker_updates, gradients, min_worker_updates,
                   unusable_gradients, used_gradients, k, hist_vars>>

\* Line 166 when no evaluation is due.
SyncSkipEvaluate ==
    /\ pc = "sync_eval"
    /\ ~SyncEvalDue(i)
    /\ i' = i + 1
    /\ pc' = "sync_round"
    /\ UNCHANGED <<config, ps_vars, worker_vars, total_iterations, current_weights,
                   num_worker_updates, gradients, min_worker_updates,
                   unusable_gradients, used_gradients, k, accuracy,
                   model_weights, hist_vars>>

\* Lines 159 (range exhausted) and 172: the final print reads `accuracy`.
SyncFinish ==
    /\ pc = "sync_round"
    /\ i >= iterations
    /\ pc' = IF accuracy = 0 THEN "crashed" ELSE "sync_done"
    /\ UNCHANGED <<config, ps_vars, worker_vars, i, total_iterations, current_weights,
                   num_worker_updates, gradients, min_worker_updates,
                   unusable_gradients, used_gradients, k, accuracy,
                   model_weights, hist_vars>>

\* mnist.py is started on the same inputs once the sync_baseline.py run is
\* over and its actors have run their queues; the trace of that run is kept.
RunMnist ==
    /\ pc = "sync_done"
    /\ ps_calls = <<>>
    /\ baseline_trace' = trace
    /\ ps_state' = "unborn"
    /\ param' = InitialParameter * Denom
    /\ version' = 0
    /\ ps_calls' = <<>>
    /\ ps_submitted' = 0
    /\ ps_executed' = 0
    /\ ps_results' = EmptyDict
    /\ obj' = EmptyDict
    /\ dispatched' = [w \in 1..num_workers |-> 0]
    /\ i' = 0
    /\ current_weights' = 0
    /\ gradients' = EmptyDict
    /\ accuracy' = 0
    /\ model_weights' = 0
    /\ trace' = <<>>
    /\ pc' = "construct"
    /\ UNCHANGED <<config, total_iterations, num_worker_updates,
                   min_worker_updates, unusable_gradients, used_gradients, k,
                   observed, was_unusable, applied, admitted_by>>

ComparisonNext ==
    \/ SyncConstruct
    \/ SyncRound
    \/ SyncEvaluate
    \/ SyncSkipEvaluate
    \/ SyncFinish
    \/ RunMnist
    \/ Next

ComparisonSpec == ComparisonInit /\ [][ComparisonNext]_vars

\* ---------------------------------------------------------------- types
TypeOK ==
    /\ pc \in {"construct", "dispatch", "round", "wait", "redispatch", "eval",
               "done", "crashed", "sync_construct", "sync_round", "sync_eval",
               "sync_done"}
    /\ ps_state \in {"unborn", "alive", "dead"}
    /\ version \in Nat
    /\ ps_executed + Len(ps_calls) = ps_submitted
    /\ DOMAIN gradients \subseteq DOMAIN obj

\* ---------------------------------------------------------------- claims
ValidQuorum == num_workers_ps_update \in 1..num_workers
ValidRules == ValidGradRule(ps_grad_rule) /\ ValidUpdateRule(ps_update_rule)
Counts == {num_worker_updates[w] : w \in TheWorkers}
Skew == SetMax(Counts) - SetMin(Counts)
UsedIds == {used_gradients[n].id : n \in 1..Len(used_gradients)}

\* C1: with a quorum of 1..num_workers and any tolerance S, in every state of
\* the round loop, also between two increments at the end of a round, the
\* largest update count exceeds the smallest by at most S + 1.
C1_SkewBound ==
    ValidQuorum => Skew <= stale_tolerance + 1

\* The bound is met between two increments of a round's end.
C1_Witness ==
    /\ ValidQuorum
    /\ stale_tolerance = 1
    /\ pc = "redispatch"
    /\ Skew = stale_tolerance + 1

\* C2: a handle placed in used_gradients is out of the pending set, and the
\* handles a round passes to apply_gradients are pairwise distinct and none
\* of them was passed to apply_gradients by an earlier round.
C2_SingleConsumption ==
    /\ [](UsedIds \cap DOMAIN gradients = {} /\ applied \cap DOMAIN gradients = {})
    /\ [][applied' # applied =>
            /\ UsedIds \cap applied = {}
            /\ Cardinality(UsedIds) = Len(used_gradients)
            /\ applied' = applied \cup UsedIds]_vars

\* A worker's second contribution is passed to a later apply_gradients.
C2_Witness ==
    /\ pc = "redispatch"
    /\ \E w \in TheWorkers : <<w, 1>> \in applied /\ <<w, 2>> \in applied
    /\ Cardinality(applied) >= 3

\* C3: with S = 0 and a quorum of all workers, once a round's increments are
\* done every worker's update count equals the number of rounds completed.
C3_Barrier ==
    (stale_tolerance = 0 /\ num_workers_ps_update = num_workers) =>
        /\ pc = "eval" => \A w \in TheWorkers : num_worker_updates[w] = i + 1
        /\ pc \in {"round", "done"} => \A w \in TheWorkers : num_worker_updates[w] = i

\* Three workers after their second full round.
C3_Witness ==
    /\ stale_tolerance = 0
    /\ num_workers = 3
    /\ num_workers_ps_update = 3
    /\ pc = "round"
    /\ i = 2
    /\ \A w \in TheWorkers : num_worker_updates[w] = 2

\* C4: with S at least num_workers times the iteration budget no handle is
\* ever classified unusable, and the handles admitted in a round are the
\* first ones ray.wait returned in it, in that order, up to the quorum.
C4_PassThrough ==
    stale_tolerance >= num_workers * iterations =>
        /\ was_unusable = {}
        /\ DOMAIN unusable_gradients = {}
        /\ Len(used_gradients) <= num_workers_ps_update
        /\ observed = [n \in 1..Len(used_gradients) |-> used_gradients[n].id]

\* A quorum of two out of three, one of the admitted workers already ahead.
C4_Witness ==
    /\ stale_tolerance >= num_workers * iterations
    /\ num_workers = 3
    /\ num_workers_ps_update = 2
    /\ pc = "redispatch"
    /\ Len(observed) = 2
    /\ \E n \in 1..2 : num_worker_updates[used_gradients[n].worker] > min_worker_updates + 1

\* C5: an apply_gradients call that succeeds performs one optimizer step:
\* the version grows by exactly 1 per executed call, the result of the k-th
\* apply carries version k, round k submits the k-th apply, and so after k
\* rounds, once the actor has run its queue, k steps have been performed.
C5_VersionMonotonic ==
    /\ [](ValidRules =>
            /\ version = IF ps_executed = 0 THEN 0 ELSE ps_executed - 1
            /\ \A h \in DOMAIN ps_results : ps_results[h].ver = h - 1
            /\ pc = "round" => ps_submitted = i + 1
            /\ (pc = "round" /\ ps_calls = <<>>) => version = i)
    /\ [][version' = version \/
          (version' = version + 1 /\ ps_executed' = ps_executed + 1)]_vars

\* Three rounds done and applied.
C5_Witness ==
    /\ ValidRules
    /\ pc = "round"
    /\ i = 3
    /\ ps_calls = <<>>
    /\ version = 3

\* C6: when the gradient rule or the update rule is not a known one, the
\* parameter server's construction fails, no compute request is ever sent
\* and no round is ever started.
C6_RejectedAtConstruction ==
    ~ValidRules =>
        /\ pc # "construct" => ps_state = "dead"
        /\ \A w \in TheWorkers : dispatched[w] = 0
        /\ pc \in {"construct", "dispatch", "crashed"}

\* C7: with a quorum of 1..num_workers, any tolerance and every compute
\* request completing, the driver finishes, having submitted
\* (iterations * num_workers) // quorum applies.
C7_Terminates ==
    (ValidQuorum /\ ValidRules) =>
        <>(/\ pc = "done"
           /\ ps_submitted = 1 + (iterations * num_workers) \div num_workers_ps_update)

\* C8: in the two-worker scenario every apply subtracts 2: the result of the
\* k-th apply, and the parameter after it, is InitialParameter - 2k (8, 6, 4
\* from 10), and after round k, once the actor has run its queue, k applies
\* have run.
C8_ParameterTrace ==
    /\ param = (InitialParameter - 2 * version) * Denom
    /\ \A h \in DOMAIN ps_results :
           /\ ps_results[h].state = "ready"
           /\ ps_results[h].val = (InitialParameter - 2 * (h - 1)) * Denom
    /\ (pc \in {"round", "done"} /\ ps_calls = <<>>) => version = i

\* The parameter reached 4 after passing 8 (seen by the first evaluation
\* reading) and 6.
C8_Witness ==
    /\ pc = "done"
    /\ i = 3
    /\ version = 3
    /\ param = 4 * Denom
    /\ model_weights = 4 * Denom

\* C9: with a quorum of one and no tolerance, for 1 to MaxWorkers workers
\* and every compute request completing, every round that starts reaches its end, it admits exactly one
\* contribution, and between rounds the update counts differ by at most 1.
C9_QuorumOne ==
    num_workers_ps_update = 1 =>
        /\ [](/\ Len(used_gradients) <= 1
              /\ pc \in {"redispatch", "eval"} => Len(used_gradients) = 1
              /\ pc \in {"round", "done"} => Skew <= 1)
        /\ (pc = "wait") ~> (pc = "eval")
        /\ ValidRules => <>(pc = "done")

\* Three workers between rounds, one of them a contribution behind.
C9_Witness ==
    /\ num_workers = 3
    /\ num_workers_ps_update = 1
    /\ pc = "round"
    /\ i = 5
    /\ Skew = 1

C11_SerialInOrder ==
    /\ [](/\ \A n \in 1..Len(ps_calls) : ps_calls[n].handle = ps_executed + n
          /\ ValidRules => \A h \in DOMAIN ps_results : ps_results[h].ver = h - 1)
    /\ [][ps_executed' # ps_executed =>
            /\ ps_executed' = ps_executed + 1
            /\ ps_calls # <<>>
            /\ ps_calls' = Tail(ps_calls)
            /\ version' \in {version, version + 1}]_vars

\* Two applies are queued at once: a round's apply was submitted before the
\* apply of the round before it ran.
C11_Witness ==
    /\ ValidRules
    /\ Len(ps_calls) >= 2
    /\ \A n \in 1..Len(ps_calls) : ps_calls[n].op = "apply_gradients"

\* C12: every apply_gradients call the driver submits gets exactly
\* num_workers_ps_update handles, of pairwise distinct workers, each of a
\* worker whose update count exceeded the round's min_worker_updates by at
\* most stale_tolerance.
C12_QuorumOfUsable ==
    /\ [](/\ \A n \in 1..Len(ps_calls) :
                ps_calls[n].op = "apply_gradients" =>
                    /\ Len(ps_calls[n].args) = num_workers_ps_update
                    /\ Cardinality({g[1] : g \in Range(ps_calls[n].args)})
                           = num_workers_ps_update
          /\ pc = "wait" =>
                \A n \in 1..Len(used_gradients) :
                    num_worker_updates[used_gradients[n].worker]
                        - min_worker_updates <= stale_tolerance)
    /\ [][ps_submitted' # ps_submitted /\ pc = "wait" =>
            /\ Len(used_gradients) = num_workers_ps_update
            /\ Cardinality({used_gradients[n].worker : n \in 1..Len(used_gradients)})
                   = num_workers_ps_update
            /\ \A n \in 1..Len(used_gradients) :
                   /\ used_gradients[n].id[1] = used_gradients[n].worker
                   /\ num_worker_updates[used_gradients[n].worker]
                          - min_worker_updates <= stale_tolerance
            /\ ps_calls'[Len(ps_calls')].args =
                   [n \in 1..Len(used_gradients) |-> used_gradients[n].id]]_vars

\* An apply of two out of three workers was just submitted, one of them
\* exactly stale_tolerance ahead of the slowest.
C12_Witness ==
    /\ pc = "redispatch"
    /\ k = 1
    /\ num_workers = 3
    /\ num_workers_ps_update = 2
    /\ stale_tolerance = 1
    /\ \E n \in 1..2 :
           num_worker_updates[used_gradients[n].worker] - min_worker_updates = 1

\* The workers whose handle can pass the staleness test of the current round.
Eligible ==
    {w \in TheWorkers : num_worker_updates[w] - min_worker_updates <= stale_tolerance}

\* C13: when fewer than num_workers_ps_update workers can pass the round's
\* staleness test, the driver stays in the admission loop for ever: no apply
\* is submitted and no update count changes any more.
C13_Starved ==
    [][(pc = "wait" /\ Cardinality(Eligible) < num_workers_ps_update) =>
          /\ pc' = "wait"
          /\ Cardinality(Eligible') < num_workers_ps_update
          /\ ps_submitted' = ps_submitted
          /\ num_worker_updates' = num_worker_updates
          /\ Len(used_gradients') < num_workers_ps_update]_vars

\* Two of three workers are ahead with no tolerance: the third is admitted,
\* nothing is pending any more and the quorum of two is not reached.
C13_Witness ==
    /\ pc = "wait"
    /\ ValidQuorum
    /\ Cardinality(Eligible) < num_workers_ps_update
    /\ Len(used_gradients) = 1
    /\ DOMAIN gradients = {}
    /\ i = 1

UsedWorkers == {used_gradients[n].worker : n \in 1..Len(used_gradients)}

\* The used workers the loop of lines 197-199 has not reached yet.
AwaitingRedispatch ==
    IF pc = "redispatch"
    THEN {used_gradients[n].worker : n \in k..Len(used_gradients)}
    ELSE {}

\* The most recent compute request sent to worker w.
Latest(w) == <<w, dispatched[w]>>

\* C14: at the end of a round exactly the admitted workers have been sent
\* one new compute request, carrying the handle of that round's apply; so
\* every worker's most recent request, and every handle being admitted, was
\* sent the result of the apply that last admitted the worker (the first
\* get_weights when none did), and its gradient is computed on that version.
C14_FreshSnapshot ==
    /\ [](pc \notin {"construct", "dispatch"} =>
            /\ \A w \in TheWorkers \ AwaitingRedispatch :
                   /\ Latest(w) \in DOMAIN obj
                   /\ obj[Latest(w)].dep = admitted_by[w]
            /\ pc = "wait" =>
                   \A n \in 1..Len(used_gradients) :
                       obj[used_gradients[n].id].dep
                           = admitted_by[used_gradients[n].worker]
            /\ pc = "eval" =>
                   {w \in TheWorkers : obj[Latest(w)].dep = current_weights}
                       = UsedWorkers
            /\ ValidRules =>
                   \A g \in DOMAIN obj :
                       obj[g].state = "ready" => obj[g].ver = obj[g].dep - 1)
    /\ [][dispatched' # dispatched /\ pc = "redispatch" =>
            LET w == used_gradients[k].worker
            IN  /\ dispatched' = [dispatched EXCEPT ![w] = @ + 1]
                /\ DOMAIN obj' = DOMAIN obj \cup {<<w, dispatched'[w]>>}
                /\ obj'[<<w, dispatched'[w]>>].dep = current_weights]_vars

\* A round of one out of three ends: the admitted worker has a request on
\* the round's apply, another worker still one on an older result.
C14_Witness ==
    /\ pc = "eval"
    /\ i = 2
    /\ num_workers = 3
    /\ Cardinality(UsedWorkers) = 1
    /\ \E w \in TheWorkers : obj[Latest(w)].dep = 1
    /\ \E w \in TheWorkers : obj[Latest(w)].dep = current_weights

EligibleHandle(g) == g[1] \in Eligible

\* C15: inside a round the update counts and min_worker_updates do not
\* change, and in whatever order the handles resolve a handle is classified
\* usable exactly when its worker's count is within stale_tolerance of that
\* minimum: the used handles are the observed handles of such workers, in
\* the order observed, and the unusable ones are the other observed handles.
\* The order only decides which of the eligible workers fill the quorum.
C15_OrderIndependent ==
    /\ [](pc = "wait" =>
            /\ [n \in 1..Len(used_gradients) |-> used_gradients[n].id]
                   = SelectSeq(observed, EligibleHandle)
            /\ DOMAIN unusable_gradients
                   = {g \in Range(observed) : ~EligibleHandle(g)}
            /\ Len(used_gradients) <= num_workers_ps_update)
    /\ [][pc = "wait" /\ pc' = "wait" =>
            /\ num_worker_updates' = num_worker_updates
            /\ min_worker_updates' = min_worker_updates
            /\ Eligible' = Eligible]_vars

\* The quorum is full, a handle was classified unusable, and an eligible
\* worker was cut off by the quorum.
C15_Witness ==
    /\ pc = "wait"
    /\ QuorumFull(used_gradients)
    /\ DOMAIN unusable_gradients # {}
    /\ Eligible \ UsedWorkers # {}
    /\ Len(observed) = 2

\* One contribution of every worker, each computed on the version the
\* n-th apply found, i.e. the one the apply before it produced.
OnePerWorker(n, entry) ==
    /\ entry.count = num_workers
    /\ entry.contributions = {<<w, n - 1>> : w \in TheWorkers}

IsPrefix(s, t) ==
    /\ Len(s) <= Len(t)
    /\ \A n \in 1..Len(s) : s[n] = t[n]

\* C16: on the same inputs, with num_workers_ps_update = num_workers and
\* stale_tolerance = 0, mnist.py performs the applies sync_baseline.py
\* performs: in both, the n-th apply aggregates exactly one contribution of
\* every worker, each computed on the weights of the (n-1)-th apply; both
\* submit `iterations` applies, and the finished traces are equal.
C16_SameAsBaseline ==
    /\ \A n \in 1..Len(trace) : OnePerWorker(n, trace[n])
    /\ pc \notin {"sync_construct", "sync_round", "sync_eval", "sync_done"} =>
           IsPrefix(trace, baseline_trace)
    /\ pc \in {"sync_done", "done"} => ps_submitted = 1 + iterations
    /\ (pc \in {"sync_done", "done"} /\ ps_calls = <<>>) =>
           Len(trace) = iterations
    /\ (pc = "done" /\ ps_calls = <<>>) => trace = baseline_trace

\* Both runs are over with three workers.
C16_Witness ==
    /\ pc = "done"
    /\ ps_calls = <<>>
    /\ num_workers = 3
    /\ Len(baseline_trace) = ScenarioIterations
    /\ trace = baseline_trace

\* The workers whose latest contribution was classified unusable and has
\* not been admitted since.
Sidelined ==
    {w \in TheWorkers : Latest(w) \in was_unusable /\ Latest(w) \notin UsedIds}

PendingOf(w) == {g \in DOMAIN gradients : g[1] = w}

BetweenRounds == pc \in {"redispatch", "eval", "round", "done"}

Admitted(w) == Cardinality({g \in applied : g[1] = w})
AdmittedBefore(w) == Cardinality({g \in applied \ UsedIds : g[1] = w})

RECURSIVE SumCounts(_)
SumCounts(ws) ==
    IF ws = {} THEN 0
    ELSE LET w == CHOOSE x \in ws : TRUE
         IN  num_worker_updates[w] + SumCounts(ws \ {w})

\* C18: outside the loop of lines 197-199 every worker's update count is the
\* number of its handles passed to apply_gradients so far, and the counts
\* add up to num_workers_ps_update times the applies submitted; at the end
\* of a round the count is one more than before for the workers admitted in
\* the round and as before for the others; the count only changes by one
\* increment per admitted handle.
C18_CountsAdmissions ==
    /\ [](pc \in {"round", "wait", "eval", "done"} =>
            /\ \A w \in TheWorkers : num_worker_updates[w] = Admitted(w)
            /\ SumCounts(TheWorkers) = num_workers_ps_update * (ps_submitted - 1))
    /\ [](pc = "eval" =>
            \A w \in TheWorkers :
                num_worker_updates[w]
                    = AdmittedBefore(w) + (IF w \in UsedWorkers THEN 1 ELSE 0))
    /\ [][(num_worker_updates' # num_worker_updates /\ pc # "dispatch") =>
            /\ pc = "redispatch"
            /\ \E w \in UsedWorkers :
                   num_worker_updates' = [num_worker_updates EXCEPT ![w] = @ + 1]]_vars

\* After the second round of three workers with quorum two, one worker was
\* admitted twice and another not at all.
C18_Witness ==
    /\ pc = "eval"
    /\ num_workers = 3
    /\ num_workers_ps_update = 2
    /\ ps_submitted = 3
    /\ \E w \in TheWorkers : num_worker_updates[w] = 2 /\ Admitted(w) = 2
    /\ \E w \in TheWorkers : num_worker_updates[w] = 0 /\ w \notin UsedWorkers

\* C19: when a round starts every worker has one entry in the pending set
\* and no more, the handle of the last compute request sent to it; the
\* number of compute requests sent to a worker is its update count plus 1
\* from the initial dispatch on; and a worker whose contribution was
\* classified unusable is sent no compute request before that contribution
\* is admitted.
C19_OneOutstanding ==
    /\ []((pc = "round" \/ (pc = "wait" /\ observed = <<>>)) =>
            \A w \in TheWorkers :
                /\ Cardinality(PendingOf(w)) <= 1
                /\ PendingOf(w) = {Latest(w)})
    /\ [](pc \notin {"construct", "dispatch"} =>
            \A w \in TheWorkers : dispatched[w] = num_worker_updates[w] + 1)
    /\ [][\A w \in TheWorkers :
            dispatched'[w] # dispatched[w] =>
                /\ dispatched'[w] = dispatched[w] + 1
                /\ w \notin Sidelined
                /\ pc = "dispatch" \/ Latest(w) \in UsedIds]_vars

\* The third round starts with one worker still on its first request and
\* another on its second, set aside as unusable in the round before.
C19_Witness ==
    /\ pc = "wait"
    /\ observed = <<>>
    /\ i = 2
    /\ \E w \in TheWorkers : dispatched[w] = 1 /\ num_worker_updates[w] = 0
    /\ \E w \in Sidelined : dispatched[w] = 2 /\ PendingOf(w) = {Latest(w)}

\* C20: a step of the driver at line 201, whether it evaluates, skips the
\* evaluation or has ray.get raise, leaves the update counts, the pending
\* set, the parameter server's parameter, version and queue and every other
\* variable of the scheduler unchanged; an evaluation that returns only
\* binds the driver's model weights and `accuracy`, and leaves the driver
\* where skipping it would have: at the head of the next round.
C20_EvaluationFrame ==
    [][pc = "eval" /\ pc' # "eval" =>
          /\ UNCHANGED <<config, ps_vars, worker_vars, total_iterations,
                         current_weights, num_worker_updates, gradients,
                         min_worker_updates, unusable_gradients,
                         used_gradients, k, hist_vars>>
          /\ pc' \in {"round", "crashed"}
          /\ pc' = "round" => i' = i + 1
          /\ pc' = "crashed" => (EvalDue(i) /\ UNCHANGED <<i, accuracy, model_weights>>)
          /\ ~EvalDue(i) => (pc' = "round" /\ UNCHANGED <<accuracy, model_weights>>)
          /\ (EvalDue(i) /\ ValidRules) =>
                 (pc' = "round" /\ accuracy' = accuracy + 1)]_vars

\* The fifth round of six admits a handle after the evaluations of rounds
\* one and four ran and those of rounds two and three were skipped.
C20_Witness ==
    /\ pc = "wait"
    /\ i = 4
    /\ total_iterations = 6
    /\ accuracy = 2
    /\ Len(used_gradients) = 1

====
